---------------------------- MODULE Spec2Model ----------------------------
(***************************************************************************)
(* A model of the record normalizer / deduplicator (DataCleaner) and of    *)
(* the text chunker (TextChunker) of the RAG pipeline.                     *)
(*                                                                         *)
(* Python strings are sequences of one-character strings.  The Cyrillic    *)
(* letters of the source are written with one Latin letter each:           *)
(* "kak" for the word in 'как?', "cto" for 'что?', "gde" for 'где?',       *)
(* "Vopros" and "Otvet" for the two labels of the canonical text.          *)
(* A Python dict is a function whose DOMAIN is the set of keys present.    *)
(***************************************************************************)
EXTENDS Integers, Sequences, FiniteSets, TLC

VARIABLES
    inp,            \* SpecNorm: the string handed to the first normalizer call
    hist,           \* SpecNorm: the calls made so far, each [op, arg, val]
    chunk_size,     \* TextChunker.chunk_size
    chunk_overlap,  \* TextChunker.chunk_overlap
    min_chunk_size, \* TextChunker.min_chunk_size
    enable_chunking,\* chunk_record: the enable_chunking argument
    record,         \* chunk_record: the record argument (a dict)
    result,         \* chunk_record: the list it returns
    caller,         \* who called create_chunks_from_text: "direct" or "chunk_record"
    text,           \* create_chunks_from_text: the text argument
    prefix,         \* create_chunks_from_text: the chunk_id_prefix argument
    parent_metadata,\* create_chunks_from_text: the parent_metadata argument
    pc,             \* create_chunks_from_text: the position in the function body
                    \* ("new" while the TextChunker is not constructed yet)
    sentences,      \* the sentences still to be visited by the for loop
    current_chunk,  \* local current_chunk (a list of strings)
    current_length, \* local current_length
    chunk_index,    \* local chunk_index
    chunks,         \* local chunks, the list that is returned
    words,          \* the words still to be visited by the inner for loop
    temp_chunk,     \* local temp_chunk (a list of strings)
    temp_length,    \* local temp_length
    flushed,        \* history: one entry per buffer the function closed
    seen_texts,     \* DataCleaner.seen_texts
    seen_questions, \* DataCleaner.seen_questions
    cpc,            \* clean_records: the position in the function body
    batch,          \* clean_records: the records argument
    remove_duplicates, \* clean_records: the remove_duplicates argument
    next_record,    \* clean_records: the index of the record the loop visits next
    cleaned_records,   \* clean_records: local cleaned_records, the list returned
    duplicates_removed,\* clean_records: local duplicates_removed
    kept_from,      \* history: the index in batch of each element of cleaned_records
    stale,          \* history: the call before had kept the first record of this batch
    heap,           \* clean_record: the dict objects, a reference is an index
    heap_before,    \* history: heap when clean_record was called
    arg,            \* clean_record: the reference passed as record
    cleaned_at,     \* clean_record: the reference held by local cleaned
    rpc,            \* clean_record: the position in the function body
    records,        \* chunk_records: the records argument, a list of dicts
    records_before, \* history: records when chunk_records was called
    min_text_length,\* chunk_records: the min_text_length argument
    chunked_records,\* chunk_records: local chunked_records, the list returned
    visit,          \* chunk_records: the index of the record the loop visits next
    kpc,            \* chunk_records: the position in the function body
    blocks,         \* history: what each visited record added to chunked_records
    shared,         \* SpecConc: the two invocations use one DataCleaner instance
    inst_questions, \* SpecConc: seen_questions of each DataCleaner instance
    inst_texts,     \* SpecConc: seen_texts of each DataCleaner instance
    conc_pc,        \* SpecConc: the position of each clean_records invocation
    conc_batch,     \* SpecConc: the records argument of each invocation
    conc_next,      \* SpecConc: the index each invocation's loop visits next
    conc_out        \* SpecConc: local cleaned_records of each invocation

normVars == <<inp, hist>>
cfgVars == <<chunk_size, chunk_overlap, min_chunk_size>>
chunkVars == <<enable_chunking, record, result, caller, text, prefix, parent_metadata, pc, sentences, current_chunk, current_length,
               chunk_index, chunks, words, temp_chunk, temp_length, flushed>>
cleanVars == <<seen_texts, seen_questions, cpc, batch, remove_duplicates, next_record,
               cleaned_records, duplicates_removed, kept_from, stale>>
recVars == <<heap, heap_before, arg, cleaned_at, rpc>>
batchVars == <<records, records_before, min_text_length, chunked_records, visit, kpc, blocks>>
concVars == <<shared, inst_questions, inst_texts, conc_pc, conc_batch, conc_next, conc_out>>
vars == <<normVars, cfgVars, chunkVars, cleanVars, recVars, batchVars, concVars>>

-----------------------------------------------------------------------------
(* Characters and character classes *)

\* Whitespace as matched by the regular expression class \s and by str.strip.
IsSpace(c) == c \in {" ", "\n", "\t"}

\* The character class [,.!?;:] of normalize_text.
IsPunct(c) == c \in {",", ".", "!", "?", ";", ":"}

LowerLetters == <<"a","b","c","d","e","g","k","o","p","r","s","t","v">>
UpperLetters == <<"A","B","C","D","E","G","K","O","P","R","S","T","V">>

\* str.upper on one character.
UpperChar(c) ==
    IF \E i \in 1..Len(LowerLetters) : LowerLetters[i] = c
    THEN UpperLetters[CHOOSE i \in 1..Len(LowerLetters) : LowerLetters[i] = c]
    ELSE c

\* str.lower on one character.
LowerChar(c) ==
    IF \E i \in 1..Len(UpperLetters) : UpperLetters[i] = c
    THEN LowerLetters[CHOOSE i \in 1..Len(UpperLetters) : UpperLetters[i] = c]
    ELSE c

\* str.lower
Lower(s) == [i \in 1..Len(s) |-> LowerChar(s[i])]

\* s[n:] of Python, n >= 0
Drop(s, n) == IF n >= Len(s) THEN <<>> ELSE SubSeq(s, n + 1, Len(s))

\* s[:n] of Python, n >= 0
Take(s, n) == IF n >= Len(s) THEN s ELSE SubSeq(s, 1, n)

\* s.startswith(p)
StartsWith(s, p) == Len(p) <= Len(s) /\ SubSeq(s, 1, Len(p)) = p

\* s.endswith(p)
EndsWith(s, p) == Len(p) <= Len(s) /\ SubSeq(s, Len(s) - Len(p) + 1, Len(s)) = p

\* The length of the longest prefix of s whose characters are all whitespace.
RECURSIVE SpaceRun(_)
SpaceRun(s) ==
    IF s = <<>> \/ ~IsSpace(Head(s)) THEN 0 ELSE 1 + SpaceRun(Tail(s))

\* The length of the longest prefix of s made of the character c.
RECURSIVE CharRun(_, _)
CharRun(s, c) ==
    IF s = <<>> \/ Head(s) # c THEN 0 ELSE 1 + CharRun(Tail(s), c)

\* str.strip(): leading and trailing whitespace removed.
RECURSIVE RStrip(_)
RStrip(s) ==
    IF s # <<>> /\ IsSpace(s[Len(s)]) THEN RStrip(SubSeq(s, 1, Len(s) - 1)) ELSE s

Strip(s) == RStrip(Drop(s, SpaceRun(s)))

\* str.rstrip(c) for a single character c.
RECURSIVE RStripChar(_, _)
RStripChar(s, c) ==
    IF s # <<>> /\ s[Len(s)] = c THEN RStripChar(SubSeq(s, 1, Len(s) - 1), c) ELSE s

\* str.replace(old, new): the leftmost non-overlapping occurrences, old # "".
RECURSIVE Replace(_, _, _)
Replace(s, old, new) ==
    IF s = <<>> THEN <<>>
    ELSE IF StartsWith(s, old) THEN new \o Replace(Drop(s, Len(old)), old, new)
    ELSE <<Head(s)>> \o Replace(Tail(s), old, new)

\* unicodedata.normalize('NFKC', c) on one character: the horizontal ellipsis
\* (written "~" here) decomposes to three full stops, the no-break space
\* (written "_") to a space; every other character of the alphabet is kept.
NFKCChar(c) ==
    IF c = "~" THEN <<".", ".", ".">>
    ELSE IF c = "_" THEN <<" ">>
    ELSE <<c>>

RECURSIVE NFKC(_)
NFKC(s) == IF s = <<>> THEN <<>> ELSE NFKCChar(Head(s)) \o NFKC(Tail(s))

-----------------------------------------------------------------------------
(* DataCleaner.normalize_text, one operator per re.sub *)

\* re.sub(r'\s+', ' ', text)
RECURSIVE CollapseSpaces(_)
CollapseSpaces(s) ==
    IF s = <<>> THEN <<>>
    ELSE IF IsSpace(Head(s)) THEN <<" ">> \o CollapseSpaces(Drop(s, SpaceRun(s)))
    ELSE <<Head(s)>> \o CollapseSpaces(Tail(s))

\* re.sub(c{2,}, c, text) for one of the characters . ? !
RECURSIVE CollapseRuns(_, _)
CollapseRuns(s, c) ==
    IF s = <<>> THEN <<>>
    ELSE IF Head(s) = c THEN <<c>> \o CollapseRuns(Drop(s, CharRun(s, c)), c)
    ELSE <<Head(s)>> \o CollapseRuns(Tail(s), c)

\* re.sub(r'\s+([,.!?;:])', r'\1', text): a whitespace run directly followed
\* by a punctuation character is removed; the scan goes on after that character.
RECURSIVE StripBeforePunct(_)
StripBeforePunct(s) ==
    IF s = <<>> THEN <<>>
    ELSE IF IsSpace(Head(s))
    THEN LET k == SpaceRun(s)
         IN  IF k < Len(s) /\ IsPunct(s[k + 1])
             THEN <<s[k + 1]>> \o StripBeforePunct(Drop(s, k + 1))
             ELSE Take(s, k) \o StripBeforePunct(Drop(s, k))
    ELSE <<Head(s)>> \o StripBeforePunct(Tail(s))

\* re.sub(r'([,.!?;:])([^\s])', r'\1 \2', text): matches do not overlap, the
\* character after the punctuation is consumed by the match.
RECURSIVE SpaceAfterPunct(_)
SpaceAfterPunct(s) ==
    IF s = <<>> THEN <<>>
    ELSE IF IsPunct(Head(s)) /\ Len(s) >= 2 /\ ~IsSpace(s[2])
    THEN <<Head(s), " ", s[2]>> \o SpaceAfterPunct(Drop(s, 2))
    ELSE <<Head(s)>> \o SpaceAfterPunct(Tail(s))

normalize_text(s) ==
    IF s = <<>> THEN <<>>
    ELSE LET t1 == NFKC(s)
             t2 == CollapseSpaces(t1)
             t3 == Strip(t2)
             t4 == CollapseRuns(t3, ".")
             t5 == CollapseRuns(t4, "?")
             t6 == CollapseRuns(t5, "!")
             t7 == StripBeforePunct(t6)
         IN  SpaceAfterPunct(t7)

\* question[0].upper() + question[1:] if len(question) > 1 else question.upper()
Capitalize(s) ==
    IF Len(s) > 1 THEN <<UpperChar(s[1])>> \o Tail(s)
    ELSE [i \in 1..Len(s) |-> UpperChar(s[i])]

kak == <<"k", "a", "k">>
cto == <<"c", "t", "o">>
gde == <<"g", "d", "e">>

\* The variant of AppendMark that never appends.
AppendMarkNever(q) == q

\* lines 77-78: a question mark is appended to a non-empty question without one
AppendMark(q) == IF q # <<>> /\ ~EndsWith(q, <<"?">>) THEN q \o <<"?">> ELSE q

\* lines 66-78 for a non-empty argument: the question before line 81
QuestionMarked(question) ==
    LET q1 == normalize_text(question)
        q2 == RStripChar(Strip(q1), "?")
        q3 == Replace(q2, kak \o <<"?">>, kak)
        q4 == Replace(q3, cto \o <<"?">>, cto)
        q5 == Replace(q4, gde \o <<"?">>, gde)
    IN  AppendMark(q5)

normalize_question(question) ==
    IF question = <<>> THEN <<>>
    ELSE IF QuestionMarked(question) # <<>>
         THEN Capitalize(QuestionMarked(question))
         ELSE QuestionMarked(question)

normalize_answer(answer) ==
    IF answer = <<>> THEN <<>>
    ELSE LET a1 == normalize_text(answer)
         IN  IF a1 # <<>> THEN Capitalize(a1) ELSE a1

-----------------------------------------------------------------------------
(* SpecNorm: the three normalizers applied, in any order, in a chain *)

\* All sequences over S of length at most n.
SeqsUpTo(S, n) == UNION {[1..k -> S] : k \in 0..n}

NormAlphabet == {"a", " ", ".", "?", ","}
MaxStrLen == 5
MaxCalls == 2

\* The value the next call of the chain receives.
ChainArg == IF hist = <<>> THEN inp ELSE hist[Len(hist)].val

\* The variables of clean_records while no DataCleaner call is modelled.
CleanerIdle ==
    /\ seen_texts = {} /\ seen_questions = {}
    /\ cpc = "idle" /\ batch = <<>> /\ remove_duplicates = TRUE
    /\ next_record = 1 /\ cleaned_records = <<>> /\ duplicates_removed = 0
    /\ kept_from = <<>> /\ stale = FALSE

\* The variables of clean_record while no call of it is modelled step by step.
RecIdle ==
    /\ heap = <<>> /\ heap_before = <<>>
    /\ arg = 0 /\ cleaned_at = 0 /\ rpc = "idle"

\* The variables of the two concurrent invocations while none is modelled.
ConcIdle ==
    /\ shared = FALSE /\ inst_questions = <<>> /\ inst_texts = <<>>
    /\ conc_pc = <<>> /\ conc_batch = <<>> /\ conc_next = <<>> /\ conc_out = <<>>

\* The variables of chunk_records while no call of it is modelled.
BatchIdle ==
    /\ records = <<>> /\ records_before = <<>> /\ min_text_length = 0
    /\ chunked_records = <<>> /\ visit = 1 /\ kpc = "idle" /\ blocks = <<>>

\* The variables of the chunker, unused by the normalizer.
ChunkerIdle ==
    /\ chunk_size = 0 /\ chunk_overlap = 0 /\ min_chunk_size = 0
    /\ enable_chunking = TRUE /\ record = <<>> /\ result = <<>> /\ caller = "none"
    /\ text = <<>> /\ prefix = <<>> /\ parent_metadata = <<>> /\ pc = "idle"
    /\ sentences = <<>> /\ current_chunk = <<>> /\ current_length = 0
    /\ chunk_index = 0 /\ chunks = <<>>
    /\ words = <<>> /\ temp_chunk = <<>> /\ temp_length = 0
    /\ flushed = <<>>

InitNorm ==
    /\ inp \in SeqsUpTo(NormAlphabet, MaxStrLen)
    /\ hist = <<>>
    /\ ChunkerIdle
    /\ CleanerIdle
    /\ RecIdle
    /\ BatchIdle
    /\ ConcIdle

CallNormalizeText ==
    /\ Len(hist) < MaxCalls
    /\ hist' = Append(hist, [op |-> "normalize_text", arg |-> ChainArg,
                             val |-> normalize_text(ChainArg)])
    /\ UNCHANGED <<inp, cfgVars, concVars, chunkVars, cleanVars, recVars, batchVars>>

CallNormalizeQuestion ==
    /\ Len(hist) < MaxCalls
    /\ hist' = Append(hist, [op |-> "normalize_question", arg |-> ChainArg,
                             val |-> normalize_question(ChainArg)])
    /\ UNCHANGED <<inp, cfgVars, concVars, chunkVars, cleanVars, recVars, batchVars>>

CallNormalizeAnswer ==
    /\ Len(hist) < MaxCalls
    /\ hist' = Append(hist, [op |-> "normalize_answer", arg |-> ChainArg,
                             val |-> normalize_answer(ChainArg)])
    /\ UNCHANGED <<inp, cfgVars, concVars, chunkVars, cleanVars, recVars, batchVars>>

NextNorm == CallNormalizeText \/ CallNormalizeQuestion \/ CallNormalizeAnswer

SpecNorm == InitNorm /\ [][NextNorm]_vars

\* C1: normalize_text is idempotent: a call of normalize_text on the result
\* of a call of normalize_text returns its argument unchanged.
C1_Idempotent ==
    \A i \in 1..Len(hist) :
        (i > 1 /\ hist[i].op = "normalize_text" /\ hist[i - 1].op = "normalize_text")
            => hist[i].val = hist[i].arg

\* C12: every call of normalize_question returns the empty string or a
\* string whose last character is '?' and whose last but one is not, whose
\* first character is the upper case of the first character of the question
\* before line 81 and whose other characters are the ones of that question.
C12_QuestionShape ==
    \A i \in 1..Len(hist) :
        (hist[i].op = "normalize_question" /\ hist[i].val # <<>>) =>
            /\ hist[i].val[Len(hist[i].val)] = "?"
            /\ Len(hist[i].val) > 1 => hist[i].val[Len(hist[i].val) - 1] # "?"
            /\ Len(hist[i].val) = Len(QuestionMarked(hist[i].arg))
            /\ hist[i].val[1] = UpperChar(QuestionMarked(hist[i].arg)[1])
            /\ Tail(hist[i].val) = Tail(QuestionMarked(hist[i].arg))

\* C12 witness: normalize_question was called on a string that ends with two
\* question marks and begins with a lower-case letter, and returned a string
\* of a letter and more.
C12_Witness ==
    \E i \in 1..Len(hist) :
        /\ hist[i].op = "normalize_question"
        /\ EndsWith(hist[i].arg, <<"?", "?">>)
        /\ hist[i].arg[1] = "a" /\ hist[i].val[1] = "A"
        /\ Len(hist[i].val) > 2

\* C19: in the string a call of normalize_text returns, each of the
\* characters , . ! ? ; : is the last character or is followed by a space.
C19_SpaceAfterPunctuation ==
    \A i \in 1..Len(hist) :
        hist[i].op = "normalize_text" =>
            \A j \in 1..Len(hist[i].val) - 1 :
                IsPunct(hist[i].val[j]) => hist[i].val[j + 1] = " "

\* C20: the string a call of normalize_text returns has no two adjacent
\* equal characters out of . ? !
C20_NoRepeatedMarks ==
    \A i \in 1..Len(hist) :
        hist[i].op = "normalize_text" =>
            \A j \in 1..Len(hist[i].val) - 1 :
                hist[i].val[j] \in {".", "?", "!"} => hist[i].val[j + 1] # hist[i].val[j]

-----------------------------------------------------------------------------
(* Python values used by the chunker *)

\* None, as the default of parent_metadata.
None == [None |-> TRUE]

\* dict.get(k, default)
Get(d, k, default) == IF k \in DOMAIN d THEN d[k] ELSE default

\* d[k] = v on a dict d
Put(d, k, v) == [x \in DOMAIN d \cup {k} |-> IF x = k THEN v ELSE d[x]]

\* The truth value of an Optional[dict]: None and the empty dict are false.
Truthy(d) == d # None /\ DOMAIN d # {}

\* sep.join(parts)
RECURSIVE Join(_, _)
Join(parts, sep) ==
    IF parts = <<>> THEN <<>>
    ELSE IF Len(parts) = 1 THEN parts[1]
    ELSE parts[1] \o sep \o Join(Tail(parts), sep)

\* sum(len(s) for s in parts)
RECURSIVE SumLen(_)
SumLen(parts) == IF parts = <<>> THEN 0 ELSE Len(parts[1]) + SumLen(Tail(parts))

\* lst[k:] of Python for any integer k: a negative k counts from the end.
SliceFrom(lst, k) ==
    IF k >= 0 THEN Drop(lst, k)
    ELSE IF -k >= Len(lst) THEN lst ELSE Drop(lst, Len(lst) + k)

Digits == <<"0", "1", "2", "3", "4", "5", "6", "7", "8", "9">>

\* str(n) for n >= 0, as the f-string formats chunk_index.
RECURSIVE IntToStr(_)
IntToStr(n) ==
    IF n < 10 THEN <<Digits[n + 1]>>
    ELSE IntToStr(n \div 10) \o <<Digits[(n % 10) + 1]>>

Max(a, b) == IF a >= b THEN a ELSE b

-----------------------------------------------------------------------------
(* TextChunker.split_by_sentences and str.split *)

IsSentenceEnd(c) == c \in {".", "!", "?"}

\* re.split(r'(?<=[.!?])\s+', text): cur is the piece being read.  The text
\* is cut at every whitespace run that directly follows one of . ! ?
RECURSIVE ReSplit(_, _)
ReSplit(rest, cur) ==
    IF rest = <<>> THEN <<cur>>
    ELSE IF IsSpace(Head(rest)) /\ cur # <<>> /\ IsSentenceEnd(cur[Len(cur)])
    THEN <<cur>> \o ReSplit(Drop(rest, SpaceRun(rest)), <<>>)
    ELSE ReSplit(Tail(rest), Append(cur, Head(rest)))

\* [s.strip() for s in pieces if s.strip()]
RECURSIVE StripNonEmpty(_)
StripNonEmpty(pieces) ==
    IF pieces = <<>> THEN <<>>
    ELSE IF Strip(pieces[1]) = <<>> THEN StripNonEmpty(Tail(pieces))
    ELSE <<Strip(pieces[1])>> \o StripNonEmpty(Tail(pieces))

split_by_sentences(t) == StripNonEmpty(ReSplit(t, <<>>))

\* str.split(): the maximal runs of non-whitespace characters.
RECURSIVE SplitWords(_, _)
SplitWords(rest, cur) ==
    IF rest = <<>> THEN (IF cur = <<>> THEN <<>> ELSE <<cur>>)
    ELSE IF IsSpace(Head(rest))
    THEN (IF cur = <<>> THEN <<>> ELSE <<cur>>) \o SplitWords(Tail(rest), <<>>)
    ELSE SplitWords(Tail(rest), Append(cur, Head(rest)))

-----------------------------------------------------------------------------
(* TextChunker.create_chunks_from_text, one action per branch of its body *)

\* Chunk(text=..., chunk_id=f"{chunk_id_prefix}_{chunk_index}", ...)
MakeChunk(chunk_text, index) ==
    [text |-> chunk_text,
     chunk_id |-> prefix \o <<"_">> \o IntToStr(index),
     chunk_index |-> index,
     parent_id |-> None,
     metadata |-> IF Truthy(parent_metadata) THEN parent_metadata ELSE <<>>]

\* One entry of the history variable: the buffer closed at a flush point,
\* whether it was appended to chunks (and with which index), and the buffer
\* that replaced it.
FlushEntry(kind, buf, emitted, seed) ==
    [kind |-> kind, buf |-> buf, emitted |-> emitted, index |-> chunk_index,
     seed |-> seed]

\* The variant of TextIsShort that sends the empty text down the splitting path.
TextIsShortNonEmpty(t) == Len(t) <= chunk_size /\ t # <<>>

\* The variant of TextIsShort with < in place of <=.
TextIsShortStrict(t) == Len(t) < chunk_size

\* line 82: len(text) <= self.chunk_size
TextIsShort(t) == Len(t) <= chunk_size

\* The variant of NextIndex that counts a buffer that was not emitted.
NextIndexAlways(emit) == chunk_index + 1

\* lines 153-160 and 177-183: chunk_index moves on only when a chunk is appended
NextIndex(emit) == IF emit THEN chunk_index + 1 ELSE chunk_index

\* lines 82-89: the text is short and is returned as one chunk
ShortText ==
    /\ pc = "call"
    /\ TextIsShort(text)
    /\ chunks' = <<MakeChunk(text, 0)>>
    /\ pc' = "return"
    /\ UNCHANGED <<batchVars, recVars, cleanVars, normVars, cfgVars, concVars, enable_chunking, record, result, caller, text, prefix,
                   parent_metadata, sentences, current_chunk, current_length,
                   chunk_index, words, temp_chunk, temp_length, flushed>>

\* lines 91-96
SplitText ==
    /\ pc = "call"
    /\ ~TextIsShort(text)
    /\ chunks' = <<>>
    /\ sentences' = split_by_sentences(text)
    /\ current_chunk' = <<>>
    /\ current_length' = 0
    /\ chunk_index' = 0
    /\ pc' = "for"
    /\ UNCHANGED <<batchVars, recVars, cleanVars, normVars, cfgVars, concVars, enable_chunking, record, result, caller, text, prefix,
                   parent_metadata, words, temp_chunk, temp_length, flushed>>

\* lines 102-119: the sentence is longer than chunk_size; the pending buffer
\* is emitted (no minimum-size test here) and the sentence is cut into words
OversizedSentence ==
    /\ pc = "for"
    /\ sentences # <<>>
    /\ Len(Head(sentences)) > chunk_size
    /\ IF current_chunk # <<>>
       THEN /\ chunks' = Append(chunks, MakeChunk(Join(current_chunk, <<" ">>), chunk_index))
            /\ chunk_index' = chunk_index + 1
            /\ current_chunk' = <<>>
            /\ current_length' = 0
            /\ flushed' = Append(flushed, FlushEntry("pending", current_chunk, TRUE, <<>>))
       ELSE UNCHANGED <<chunks, chunk_index, current_chunk, current_length, flushed>>
    /\ words' = SplitWords(Head(sentences), <<>>)
    /\ temp_chunk' = <<>>
    /\ temp_length' = 0
    /\ pc' = "words"
    /\ UNCHANGED <<batchVars, recVars, cleanVars, normVars, cfgVars, concVars, enable_chunking, record, result, caller, text, prefix,
                   parent_metadata, sentences>>

\* lines 134: temp_chunk[-self.chunk_overlap // 10:] if len(temp_chunk) >
\* self.chunk_overlap // 10 else temp_chunk.  The unary minus binds tighter
\* than //, and // rounds towards minus infinity.
WordOverlap(buf) ==
    IF Len(buf) > chunk_overlap \div 10
    THEN SliceFrom(buf, (0 - chunk_overlap) \div 10)
    ELSE buf

\* The variant of WordsAfterFlush in which the word that did not fit is
\* visited again after the flush.
WordsAfterFlushRetry(ws) == ws

\* line 121: for word in words; the loop moves on to the next word whatever
\* branch the body took
WordsAfterFlush(ws) == Tail(ws)

\* lines 122-136: the word does not fit; the word buffer is emitted and the
\* next one starts with the overlap words
WordFlush ==
    /\ pc = "words"
    /\ words # <<>>
    /\ temp_length + (Len(Head(words)) + 1) > chunk_size /\ temp_chunk # <<>>
    /\ LET seed == WordOverlap(temp_chunk) \o <<Head(words)>>
       IN  /\ chunks' = Append(chunks, MakeChunk(Join(temp_chunk, <<" ">>), chunk_index))
           /\ chunk_index' = chunk_index + 1
           /\ temp_chunk' = seed
           /\ temp_length' = SumLen(seed) + Len(seed) - 1
           /\ flushed' = Append(flushed, FlushEntry("word", temp_chunk, TRUE, seed))
    /\ words' = WordsAfterFlush(words)
    /\ UNCHANGED <<batchVars, recVars, cleanVars, normVars, cfgVars, concVars, enable_chunking, record, result, caller, text, prefix,
                   parent_metadata, pc, sentences, current_chunk, current_length>>

\* lines 137-139
WordAppend ==
    /\ pc = "words"
    /\ words # <<>>
    /\ ~(temp_length + (Len(Head(words)) + 1) > chunk_size /\ temp_chunk # <<>>)
    /\ temp_chunk' = Append(temp_chunk, Head(words))
    /\ temp_length' = temp_length + (Len(Head(words)) + 1)
    /\ words' = Tail(words)
    /\ UNCHANGED <<batchVars, recVars, cleanVars, normVars, cfgVars, concVars, enable_chunking, record, result, caller, text, prefix,
                   parent_metadata, pc, sentences, current_chunk, current_length,
                   chunk_index, chunks, flushed>>

\* lines 141-143: the words left over become the sentence buffer
WordsDone ==
    /\ pc = "words"
    /\ words = <<>>
    /\ IF temp_chunk # <<>>
       THEN current_chunk' = temp_chunk /\ current_length' = temp_length
       ELSE UNCHANGED <<current_chunk, current_length>>
    /\ sentences' = Tail(sentences)
    /\ pc' = "for"
    /\ UNCHANGED <<batchVars, recVars, cleanVars, normVars, cfgVars, concVars, enable_chunking, record, result, caller, text, prefix,
                   parent_metadata, chunk_index, chunks, words, temp_chunk,
                   temp_length, flushed>>

\* lines 146-148: the sentence fits into the buffer
AddSentence ==
    /\ pc = "for"
    /\ sentences # <<>>
    /\ ~(Len(Head(sentences)) > chunk_size)
    /\ current_length + Len(Head(sentences)) + 1 <= chunk_size
    /\ current_chunk' = Append(current_chunk, Head(sentences))
    /\ current_length' = current_length + Len(Head(sentences)) + 1
    /\ sentences' = Tail(sentences)
    /\ UNCHANGED <<batchVars, recVars, cleanVars, normVars, cfgVars, concVars, enable_chunking, record, result, caller, text, prefix,
                   parent_metadata, pc, chunk_index, chunks, words, temp_chunk,
                   temp_length, flushed>>

\* The variant of SentenceOverlap that forgets the sentence that did not fit.
SentenceOverlapOnly(buf, sentence) ==
    IF chunk_overlap > 0 /\ Len(buf) > 1
    THEN SliceFrom(buf, 0 - Max(1, Len(buf) \div 3))
    ELSE <<>>

\* lines 163-169: the buffer that follows an overflow
SentenceOverlap(buf, sentence) ==
    IF chunk_overlap > 0 /\ Len(buf) > 1
    THEN SliceFrom(buf, 0 - Max(1, Len(buf) \div 3)) \o <<sentence>>
    ELSE <<sentence>>

\* lines 149-172: the sentence does not fit; the buffer is emitted if it is
\* long enough and the next one starts with the overlap sentences
OverflowSentence ==
    /\ pc = "for"
    /\ sentences # <<>>
    /\ ~(Len(Head(sentences)) > chunk_size)
    /\ ~(current_length + Len(Head(sentences)) + 1 <= chunk_size)
    /\ IF current_chunk # <<>>
       THEN LET chunk_text == Join(current_chunk, <<" ">>)
                emit == Len(chunk_text) >= min_chunk_size
                seed == SentenceOverlap(current_chunk, Head(sentences))
            IN  /\ chunks' = IF emit THEN Append(chunks, MakeChunk(chunk_text, chunk_index))
                                     ELSE chunks
                /\ chunk_index' = NextIndex(emit)
                /\ current_chunk' = seed
                /\ current_length' =
                       IF chunk_overlap > 0 /\ Len(current_chunk) > 1
                       THEN SumLen(seed) + Len(seed) - 1
                       ELSE Len(Head(sentences))
                /\ flushed' = Append(flushed, FlushEntry("overflow", current_chunk, emit, seed))
       ELSE /\ current_chunk' = <<Head(sentences)>>
            /\ current_length' = Len(Head(sentences))
            /\ UNCHANGED <<chunks, chunk_index, flushed>>
    /\ sentences' = Tail(sentences)
    /\ UNCHANGED <<batchVars, recVars, cleanVars, normVars, cfgVars, concVars, enable_chunking, record, result, caller, text, prefix,
                   parent_metadata, pc, words, temp_chunk, temp_length>>

\* lines 174-185: the last buffer is emitted if it is long enough
FinalFlush ==
    /\ pc = "for"
    /\ sentences = <<>>
    /\ IF current_chunk # <<>>
       THEN LET chunk_text == Join(current_chunk, <<" ">>)
                emit == Len(chunk_text) >= min_chunk_size
            IN  /\ chunks' = IF emit THEN Append(chunks, MakeChunk(chunk_text, chunk_index))
                                     ELSE chunks
                /\ flushed' = Append(flushed, FlushEntry("final", current_chunk, emit, <<>>))
       ELSE UNCHANGED <<chunks, flushed>>
    /\ pc' = "return"
    /\ UNCHANGED <<batchVars, recVars, cleanVars, normVars, cfgVars, concVars, enable_chunking, record, result, caller, text, prefix,
                   parent_metadata, sentences, current_chunk, current_length,
                   chunk_index, words, temp_chunk, temp_length>>

CreateChunksBody ==
    \/ ShortText
    \/ SplitText
    \/ OversizedSentence
    \/ WordFlush
    \/ WordAppend
    \/ WordsDone
    \/ AddSentence
    \/ OverflowSentence
    \/ FinalFlush

-----------------------------------------------------------------------------
(* TextChunker.chunk_record and the callers of create_chunks_from_text *)

unknown == <<"u", "n", "k", "n", "o", "w", "n">>

\* lines 209-216
ParentMetadata(rec) ==
    [parent_id |-> Get(rec, "id", unknown),
     original_question |-> Get(rec, "question", <<>>),
     original_answer |-> Get(rec, "answer", <<>>),
     category |-> Get(rec, "category", <<>>),
     section |-> Get(rec, "section", <<>>),
     source |-> Get(Get(rec, "metadata", <<>>), "source", <<>>)]

\* lines 227-242: the record made from one chunk
ChunkToRecord(rec, chunk) ==
    [id |-> chunk.chunk_id,
     parent_id |-> Get(rec, "id", unknown),
     question |-> Get(rec, "question", <<>>),
     answer |-> Get(rec, "answer", <<>>),
     category |-> Get(rec, "category", <<>>),
     section |-> Get(rec, "section", <<>>),
     text |-> chunk.text,
     chunk_index |-> chunk.chunk_index,
     is_chunk |-> TRUE,
     metadata |-> Put(Put(chunk.metadata, "chunk_index", chunk.chunk_index),
                      "is_chunk", TRUE)]

TextAlphabet == {"a", " ", "."}
MaxTextLen == 7
MaxRecordTextLen == 5

\* The texts handed to create_chunks_from_text by a direct call.
Texts == SeqsUpTo(TextAlphabet, MaxTextLen)

\* The default of chunk_id_prefix, "chunk".
DefaultPrefix == <<"c", "h", "u", "n", "k">>

\* The records handed to chunk_record: with and without an id, with and
\* without the other fields.
RecordsFor(t) ==
    {[text |-> t],
     [id |-> <<"r">>, text |-> t],
     [id |-> <<"r">>, text |-> t, question |-> <<"q", "?">>, answer |-> <<"b">>,
      category |-> <<"c">>, section |-> <<"s">>,
      metadata |-> [source |-> <<"f">>, category |-> <<"c">>]]}

Records ==
    UNION {RecordsFor(t) : t \in SeqsUpTo(TextAlphabet, MaxRecordTextLen)}
        \cup {[id |-> <<"r">>]}

ChunkSizes == {3, 4}
ChunkOverlaps == {0, 1}
MinChunkSizes == {0, 2}

\* TextChunker.__init__ (lines 35-37); no call is in progress.
InitChunk ==
    /\ chunk_size \in ChunkSizes
    /\ chunk_overlap \in ChunkOverlaps
    /\ min_chunk_size \in MinChunkSizes
    /\ inp = <<>> /\ hist = <<>>
    /\ enable_chunking = TRUE /\ record = <<>> /\ result = <<>> /\ caller = "none"
    /\ text = <<>> /\ prefix = <<>> /\ parent_metadata = None /\ pc = "idle"
    /\ sentences = <<>> /\ current_chunk = <<>> /\ current_length = 0
    /\ chunk_index = 0 /\ chunks = <<>>
    /\ words = <<>> /\ temp_chunk = <<>> /\ temp_length = 0
    /\ flushed = <<>>
    /\ CleanerIdle
    /\ RecIdle
    /\ BatchIdle
    /\ ConcIdle

\* A call create_chunks_from_text(t) or create_chunks_from_text(t, "chunk", pm)
DirectCall ==
    /\ pc = "idle"
    /\ \E t \in Texts, pm \in {None, [source |-> <<"f">>]} :
          /\ text' = t
          /\ parent_metadata' = pm
    /\ prefix' = DefaultPrefix
    /\ caller' = "direct"
    /\ pc' = "call"
    /\ UNCHANGED <<batchVars, recVars, cleanVars, normVars, cfgVars, concVars, enable_chunking, record, result, sentences,
                   current_chunk, current_length, chunk_index, chunks, words,
                   temp_chunk, temp_length, flushed>>

\* line 185 (and 89): the list of chunks is the value of the direct call
DirectReturn ==
    /\ pc = "return"
    /\ caller = "direct"
    /\ result' = chunks
    /\ pc' = "done"
    /\ UNCHANGED <<batchVars, recVars, cleanVars, normVars, cfgVars, concVars, enable_chunking, record, caller, text, prefix,
                   parent_metadata, sentences, current_chunk, current_length,
                   chunk_index, chunks, words, temp_chunk, temp_length, flushed>>

\* lines 201-206: chunk_record returns the record itself
ChunkRecordPassthrough ==
    /\ pc = "idle"
    /\ \E rec \in Records, en \in BOOLEAN :
          /\ ~en \/ Len(Get(rec, "text", <<>>)) <= chunk_size
          /\ record' = rec
          /\ enable_chunking' = en
          /\ text' = Get(rec, "text", <<>>)
          /\ result' = <<rec>>
    /\ caller' = "chunk_record"
    /\ pc' = "done"
    /\ UNCHANGED <<batchVars, recVars, cleanVars, normVars, cfgVars, concVars, prefix, parent_metadata, sentences,
                   current_chunk, current_length, chunk_index, chunks, words,
                   temp_chunk, temp_length, flushed>>

\* lines 201-222: chunk_record calls create_chunks_from_text
ChunkRecordSplit ==
    /\ pc = "idle"
    /\ \E rec \in Records, en \in BOOLEAN :
          /\ ~(~en \/ Len(Get(rec, "text", <<>>)) <= chunk_size)
          /\ record' = rec
          /\ enable_chunking' = en
          /\ text' = Get(rec, "text", <<>>)
          /\ prefix' = Get(rec, "id", unknown)
          /\ parent_metadata' = ParentMetadata(rec)
    /\ caller' = "chunk_record"
    /\ pc' = "call"
    /\ UNCHANGED <<batchVars, recVars, cleanVars, normVars, cfgVars, concVars, result, sentences, current_chunk,
                   current_length, chunk_index, chunks, words, temp_chunk,
                   temp_length, flushed>>

\* lines 224-245: one record per chunk
ChunkRecordCollect ==
    /\ pc = "return"
    /\ caller = "chunk_record"
    /\ result' = [i \in 1..Len(chunks) |-> ChunkToRecord(record, chunks[i])]
    /\ pc' = "done"
    /\ UNCHANGED <<batchVars, recVars, cleanVars, normVars, cfgVars, concVars, enable_chunking, record, caller, text, prefix,
                   parent_metadata, sentences, current_chunk, current_length,
                   chunk_index, chunks, words, temp_chunk, temp_length, flushed>>

NextChunk ==
    \/ DirectCall
    \/ DirectReturn
    \/ ChunkRecordPassthrough
    \/ ChunkRecordSplit
    \/ ChunkRecordCollect
    \/ CreateChunksBody

SpecChunk == InitChunk /\ [][NextChunk]_vars

-----------------------------------------------------------------------------
(* Properties of create_chunks_from_text and chunk_record *)

\* The call went down the splitting path (lines 91-185).
TookSplitPath == pc \in {"for", "words", "return", "done"} /\ ~TextIsShort(text)

\* C2: for a text longer than chunk_size none of whose sentences is longer
\* than chunk_size, every chunk has a text of at most chunk_size characters.
C2_SentenceChunksWithinSize ==
    (/\ TookSplitPath
     /\ \A i \in 1..Len(split_by_sentences(text)) :
            Len(split_by_sentences(text)[i]) <= chunk_size)
        => \A i \in 1..Len(chunks) : Len(chunks[i].text) <= chunk_size

\* C3: every chunk emitted by the word loop of an oversized sentence has a
\* text of at most chunk_size characters; stated here for the texts all of
\* whose words fit into chunk_size, the case in which a split on word
\* boundaries can keep the size.
C3_WordChunksWithinSize ==
    (/\ TookSplitPath
     /\ \A i \in 1..Len(SplitWords(text, <<>>)) :
            Len(SplitWords(text, <<>>)[i]) <= chunk_size)
        => \A k \in 1..Len(flushed) :
               flushed[k].kind = "word"
                   => Len(chunks[flushed[k].index + 1].text) <= chunk_size

\* C4: the chunk_index values of the chunks are 0, 1, ..., n-1 in list order
\* and each chunk_id is id_prefix, "_" and the decimal chunk_index.
C4_IndicesContiguous ==
    \A i \in 1..Len(chunks) :
        /\ chunks[i].chunk_index = i - 1
        /\ chunks[i].chunk_id = prefix \o <<"_">> \o IntToStr(i - 1)

\* C4 witness: a call has returned two or more chunks after a buffer was
\* discarded for being shorter than min_chunk_size.
C4_Witness ==
    /\ pc = "done"
    /\ Len(chunks) >= 2
    /\ \E k \in 1..Len(flushed) :
           flushed[k].kind = "overflow" /\ ~flushed[k].emitted
           /\ \E j \in 1..Len(flushed) : j > k /\ flushed[j].emitted

\* C5: a text of length <= chunk_size is returned by
\* create_chunks_from_text as exactly one chunk, unchanged, with chunk_index 0,
\* and a record with such a text is returned by chunk_record as the one
\* element of its result.
C5_ShortTextPassthrough ==
    /\ (pc = "done" /\ caller = "direct" /\ Len(text) <= chunk_size)
           => /\ Len(result) = 1
              /\ result[1].text = text
              /\ result[1].chunk_index = 0
    /\ (pc = "done" /\ caller = "chunk_record"
            /\ Len(Get(record, "text", <<>>)) <= chunk_size)
           => result = <<record>>

\* C5 witness: a direct call has returned for a non-empty text no longer than
\* chunk_size and shorter than min_chunk_size.
C5_Witness ==
    /\ pc = "done" /\ caller = "direct"
    /\ text # <<>> /\ Len(text) < min_chunk_size /\ chunk_overlap > 0

\* C6 as claimed: the empty text yields an empty list of chunks.
C6_EmptyTextNoChunks ==
    (pc = "done" /\ caller = "direct" /\ text = <<>>) => result = <<>>

\* C6 as amended: with chunk_size >= 0 the empty text yields exactly one
\* chunk, whose text is empty and whose chunk_index is 0.
C6_EmptyTextOneChunk ==
    (pc = "done" /\ caller = "direct" /\ text = <<>> /\ chunk_size >= 0)
        => /\ Len(result) = 1
           /\ result[1].text = <<>>
           /\ result[1].chunk_index = 0
           /\ result[1].chunk_id = prefix \o <<"_", "0">>

\* C6 witness: a direct call with the empty text has returned.
C6_Witness == pc = "done" /\ caller = "direct" /\ text = <<>>

\* C14: after create_chunks_from_text has taken the splitting path (the text
\* is longer than chunk_size), every chunk of the list, whichever flush point
\* appended it, has a text of at least min_chunk_size characters.
C14_ChunksAtLeastMin ==
    (pc \in {"return", "done"} /\ ~TextIsShort(text)) =>
        \A i \in 1..Len(chunks) : Len(chunks[i].text) >= min_chunk_size

\* create_chunks_from_text was called, took the splitting path and has
\* returned (chunk_record calls it only when chunking is enabled).
SplitReturned ==
    /\ pc \in {"return", "done"}
    /\ ~TextIsShort(text)
    /\ caller = "chunk_record" => enable_chunking

\* lines 98-119: the pieces the loops put into buffers, in the order of the
\* text: a sentence, or the words of a sentence longer than chunk_size.
RECURSIVE Units(_)
Units(ss) ==
    IF ss = <<>> THEN <<>>
    ELSE (IF Len(Head(ss)) > chunk_size THEN SplitWords(Head(ss), <<>>)
          ELSE <<Head(ss)>>) \o Units(Tail(ss))

\* The closed buffers bufs, in order, are runs of units that start at or
\* before the first unit not yet held (n units are held) and leave no gap,
\* and together they hold every unit.
RECURSIVE Covers(_, _, _)
Covers(units, bufs, n) ==
    IF bufs = <<>> THEN n = Len(units)
    ELSE \E o \in 0..n :
            /\ o + Len(Head(bufs)) >= n
            /\ o + Len(Head(bufs)) <= Len(units)
            /\ SubSeq(units, o + 1, o + Len(Head(bufs))) = Head(bufs)
            /\ Covers(units, Tail(bufs), o + Len(Head(bufs)))

\* C15: when create_chunks_from_text has returned for a text longer than
\* chunk_size, the buffers it closed hold every sentence, and every word of
\* a sentence longer than chunk_size, in the order of the text and without a
\* gap; a closed buffer is a chunk, its pieces joined by spaces, unless it was
\* discarded for being shorter than min_chunk_size, and with min_chunk_size
\* = 0 none is discarded.
C15_LosslessCoverage ==
    SplitReturned =>
        /\ Covers(Units(split_by_sentences(text)),
                  [k \in 1..Len(flushed) |-> flushed[k].buf], 0)
        /\ \A k \in 1..Len(flushed) :
              IF flushed[k].emitted
              THEN chunks[flushed[k].index + 1].text = Join(flushed[k].buf, <<" ">>)
              ELSE /\ Len(Join(flushed[k].buf, <<" ">>)) < min_chunk_size
                   /\ flushed[k].kind \in {"overflow", "final"}
        /\ Len(chunks) = Cardinality({k \in 1..Len(flushed) : flushed[k].emitted})

\* C15 witness: a call has returned after it discarded a buffer, emitted
\* another and started a buffer with an overlap.
C15_Witness ==
    /\ pc = "done" /\ SplitReturned
    /\ \E k \in 1..Len(flushed) : ~flushed[k].emitted
    /\ \E k \in 1..Len(flushed) : flushed[k].emitted /\ Len(flushed[k].seed) > 1
    /\ \E k \in 1..Len(flushed) : flushed[k].kind = "overflow" /\ Len(flushed[k].seed) > 1

\* The last n elements of lst, all of them when it has no more than n.
LastOf(lst, n) == IF n >= Len(lst) THEN lst ELSE Drop(lst, Len(lst) - n)

\* C22: at every overflow of the sentence loop that closed a buffer of n >= 1
\* sentences, the next buffer is the last ceil(n / 3) sentences of the
\* closed buffer followed by one more sentence, the one that did not fit.
C22_OverlapIsCeilThird ==
    \A k \in 1..Len(flushed) :
        flushed[k].kind = "overflow" =>
            /\ Len(flushed[k].seed) = (Len(flushed[k].buf) + 2) \div 3 + 1
            /\ SubSeq(flushed[k].seed, 1, Len(flushed[k].seed) - 1)
                   = LastOf(flushed[k].buf, (Len(flushed[k].buf) + 2) \div 3)

\* C23: at every flush of the word loop the next word buffer is the last
\* chunk_overlap \div 10 words of the closed buffer, or all of its words when
\* it has no more, followed by one more word, the one that did not fit.
C23_WordOverlapIsTenth ==
    \A k \in 1..Len(flushed) :
        flushed[k].kind = "word" =>
            /\ flushed[k].seed # <<>>
            /\ SubSeq(flushed[k].seed, 1, Len(flushed[k].seed) - 1)
                   = LastOf(flushed[k].buf, chunk_overlap \div 10)

\* C24: at every overflow of the sentence loop whose closed buffer was not
\* appended to chunks, the next buffer is the closed buffer, all of its
\* sentences, followed by the sentence that did not fit.
C24_ShortBufferMergedForward ==
    \A k \in 1..Len(flushed) :
        (flushed[k].kind = "overflow" /\ ~flushed[k].emitted) =>
            /\ Len(flushed[k].seed) = Len(flushed[k].buf) + 1
            /\ SubSeq(flushed[k].seed, 1, Len(flushed[k].buf)) = flushed[k].buf

\* p in t of Python for two strings: p is a run of consecutive characters of t.
IsSubstring(p, t) ==
    \E o \in 0..(Len(t) - Len(p)) : SubSeq(t, o + 1, o + Len(p)) = p

\* C26: when create_chunks_from_text has returned for a text longer than
\* chunk_size, the text of every chunk is a run of consecutive characters of
\* that text.
C26_ChunkIsSubstring ==
    SplitReturned => \A i \in 1..Len(chunks) : IsSubstring(chunks[i].text, text)

-----------------------------------------------------------------------------
(* DataCleaner.clean_record on dict values, is_duplicate, clean_records *)

\* The label "Vopros: " of the canonical text.
QuestionLabel == <<"V", "o", "p", "r", "o", "s", ":", " ">>

\* The label "\nOtvet: " of the canonical text.
AnswerLabel == <<"\n", "O", "t", "v", "e", "t", ":", " ">>

\* lines 148-149
CleanQuestion(c) ==
    IF "question" \in DOMAIN c
    THEN Put(c, "question", normalize_question(c["question"])) ELSE c

\* lines 151-152
CleanAnswer(c) ==
    IF "answer" \in DOMAIN c
    THEN Put(c, "answer", normalize_answer(c["answer"])) ELSE c

\* The variant of RegenerateText that keeps a text the record already has.
RegenerateTextIfAbsent(c) ==
    IF "question" \in DOMAIN c /\ "answer" \in DOMAIN c /\ "text" \notin DOMAIN c
    THEN Put(c, "text", QuestionLabel \o c["question"] \o AnswerLabel \o c["answer"])
    ELSE c

\* lines 155-156: the canonical text is rebuilt when both fields are present
RegenerateText(c) ==
    IF "question" \in DOMAIN c /\ "answer" \in DOMAIN c
    THEN Put(c, "text", QuestionLabel \o c["question"] \o AnswerLabel \o c["answer"])
    ELSE c

\* lines 159-160
CleanCategory(c) ==
    IF "category" \in DOMAIN c
    THEN Put(c, "category", Strip(normalize_text(c["category"]))) ELSE c

\* lines 162-163
CleanSection(c) ==
    IF "section" \in DOMAIN c
    THEN Put(c, "section", Strip(normalize_text(c["section"]))) ELSE c

\* lines 147-163: the fields of the copy are rewritten in this order
NormalizeFields(rec) ==
    CleanSection(CleanCategory(RegenerateText(CleanAnswer(CleanQuestion(rec)))))

\* lines 168-169
RewriteCategory(md, cleaned) ==
    IF "category" \in DOMAIN md
    THEN Put(md, "category", Get(cleaned, "category", <<>>)) ELSE md

\* lines 170-171
RewriteSection(md, cleaned) ==
    IF "section" \in DOMAIN md
    THEN Put(md, "section", Get(cleaned, "section", <<>>)) ELSE md

RewriteMetadata(md, cleaned) == RewriteSection(RewriteCategory(md, cleaned), cleaned)

\* lines 166-171 on a dict value whose metadata is written inline
CleanMetadata(c) ==
    IF "metadata" \in DOMAIN c
    THEN Put(c, "metadata", RewriteMetadata(c["metadata"], c))
    ELSE c

\* lines 145-173: the dict clean_record returns
clean_record(rec) == CleanMetadata(NormalizeFields(rec))

\* lines 119-120 and 205: the key kept in seen_questions
QuestionKey(rec) == Lower(normalize_question(Get(rec, "question", <<>>)))

\* lines 127-128 and 206: the key kept in seen_texts
TextKey(rec) == Lower(normalize_text(Get(rec, "text", <<>>)))

\* The variant of is_duplicate that forgets the comparison of the texts.
is_duplicate_question_only(rec) == QuestionKey(rec) \in seen_questions

\* lines 107-133; the sets are read and not written
is_duplicate(rec) ==
    IF QuestionKey(rec) \in seen_questions THEN TRUE
    ELSE IF TextKey(rec) \in seen_texts THEN TRUE
    ELSE FALSE

\* The variant of SeenAfterCheck in which the check inserts the key it looked up.
SeenAfterCheckInserted(keys, key) == keys \cup {key}

\* lines 118-133: the set is_duplicate has looked key up in, after the call;
\* the method has no statement that writes to it
SeenAfterCheck(keys, key) == keys

\* The variant of ClearedKeys that keeps the keys of the batch before.
ClearedKeysNot(keys) == keys

\* lines 189-190: set.clear()
ClearedKeys(keys) == {}

\* The questions of the model: whitespace and punctuation variants of one
\* question, a variant in the case of the letter, and another question.
Questions ==
    {<<"a", "?">>, <<"a", "?", "?">>, <<"a", " ", "?">>, <<"a", "?", " ", "?">>,
     <<" ", "a", "\n", "?">>, <<"A", "?">>, <<"b", "?">>}

\* The records of the model: with question and answer (the text is
\* regenerated), with question and text only, with one field only.
CleanRecords ==
    {[id |-> <<"r">>, question |-> q, answer |-> <<"b">>] : q \in Questions}
      \cup {[question |-> <<"a", "?">>, text |-> <<"t">>],
            [question |-> <<"b", "?">>, text |-> <<"t">>],
            [question |-> <<"b", "?">>, text |-> <<" ", "T">>],
            [text |-> <<"t">>],
            [question |-> <<"a", "?">>],
            [question |-> <<"b", "?">>],
            [answer |-> <<"b">>]}

MaxBatch == 3

Batches == SeqsUpTo(CleanRecords, MaxBatch)

\* The batches of a later call on the same instance: records of the batch
\* before, whose keys the instance may still hold, in any order and number.
LaterBatches == SeqsUpTo({batch[i] : i \in 1..Len(batch)}, MaxBatch)

\* DataCleaner.__init__ (lines 14-16); no call is in progress.
InitClean ==
    /\ seen_texts = {} /\ seen_questions = {}
    /\ cpc = "idle" /\ batch = <<>> /\ remove_duplicates = TRUE
    /\ next_record = 1 /\ cleaned_records = <<>> /\ duplicates_removed = 0
    /\ kept_from = <<>> /\ stale = FALSE
    /\ inp = <<>> /\ hist = <<>>
    /\ ChunkerIdle
    /\ RecIdle
    /\ BatchIdle
    /\ ConcIdle

\* lines 175-193: a call of clean_records on this instance, the first one or
\* one that follows a call that has returned
StartCleanRecords ==
    /\ cpc \in {"idle", "done"}
    /\ \E b \in (IF cpc = "idle" THEN Batches ELSE LaterBatches), rd \in BOOLEAN :
          /\ batch' = b
          /\ remove_duplicates' = rd
          /\ stale' = /\ b # <<>>
                      /\ \E k \in 1..Len(kept_from) : batch[kept_from[k]] = b[1]
    /\ seen_texts' = ClearedKeys(seen_texts)
    /\ seen_questions' = ClearedKeys(seen_questions)
    /\ cleaned_records' = <<>>
    /\ duplicates_removed' = 0
    /\ kept_from' = <<>>
    /\ next_record' = 1
    /\ cpc' = "loop"
    /\ UNCHANGED <<normVars, cfgVars, concVars, chunkVars, recVars, batchVars>>

\* lines 195-202: the record is a duplicate and is skipped
SkipDuplicate ==
    /\ cpc = "loop"
    /\ next_record <= Len(batch)
    /\ LET cleaned == clean_record(batch[next_record])
       IN  remove_duplicates /\ is_duplicate(cleaned)
    /\ seen_questions' =
           SeenAfterCheck(seen_questions, QuestionKey(clean_record(batch[next_record])))
    /\ seen_texts' =
           SeenAfterCheck(seen_texts, TextKey(clean_record(batch[next_record])))
    /\ duplicates_removed' = duplicates_removed + 1
    /\ next_record' = next_record + 1
    /\ UNCHANGED <<cpc, batch, remove_duplicates, cleaned_records, kept_from, stale>>
    /\ UNCHANGED <<normVars, cfgVars, concVars, chunkVars, recVars, batchVars>>

\* lines 195-211: the record is kept and its keys are inserted
KeepRecord ==
    /\ cpc = "loop"
    /\ next_record <= Len(batch)
    /\ LET cleaned == clean_record(batch[next_record])
       IN  /\ ~(remove_duplicates /\ is_duplicate(cleaned))
           /\ seen_questions' =
                 (IF remove_duplicates
                  THEN SeenAfterCheck(seen_questions, QuestionKey(cleaned))
                  ELSE seen_questions) \cup {QuestionKey(cleaned)}
           /\ seen_texts' =
                 (IF remove_duplicates
                  THEN SeenAfterCheck(seen_texts, TextKey(cleaned))
                  ELSE seen_texts) \cup {TextKey(cleaned)}
           /\ cleaned_records' = Append(cleaned_records, cleaned)
    /\ kept_from' = Append(kept_from, next_record)
    /\ next_record' = next_record + 1
    /\ UNCHANGED <<cpc, batch, remove_duplicates, duplicates_removed, stale>>
    /\ UNCHANGED <<normVars, cfgVars, concVars, chunkVars, recVars, batchVars>>

\* lines 213-216: the loop is over and cleaned_records is returned
ReturnCleaned ==
    /\ cpc = "loop"
    /\ next_record > Len(batch)
    /\ cpc' = "done"
    /\ UNCHANGED <<seen_texts, seen_questions, batch, remove_duplicates, next_record,
                   cleaned_records, duplicates_removed, kept_from, stale>>
    /\ UNCHANGED <<normVars, cfgVars, concVars, chunkVars, recVars, batchVars>>

NextClean == StartCleanRecords \/ SkipDuplicate \/ KeepRecord \/ ReturnCleaned

SpecClean == InitClean /\ [][NextClean]_vars

\* The indices of batch whose cleaned record is in cleaned_records.
KeptIndices == {kept_from[k] : k \in 1..Len(kept_from)}

\* A question without the differences C7 names: whitespace at the ends is
\* dropped, a whitespace run is one space, whitespace before punctuation is
\* dropped, and a run of '.', '?' or '!' is one character.
Canon(q) ==
    CollapseRuns(CollapseRuns(CollapseRuns(
        StripBeforePunct(Strip(CollapseSpaces(q))), "."), "?"), "!")

\* C7: when clean_records has returned with remove_duplicates set, a record
\* whose question differs from the question of an earlier record of the batch
\* only by whitespace or by repetition of punctuation was dropped, and the
\* first of the two was kept when it is the first record of the batch.
C7_VariantDropped ==
    (cpc = "done" /\ remove_duplicates) =>
        \A i, j \in 1..Len(batch) :
            (/\ i < j
             /\ "question" \in DOMAIN batch[i] /\ "question" \in DOMAIN batch[j]
             /\ Canon(batch[i]["question"]) = Canon(batch[j]["question"]))
                => /\ j \notin KeptIndices
                   /\ (i = 1 => i \in KeptIndices)

\* The record at index j repeats a key of a record kept before it.
RepeatsKept(j) ==
    \E i \in KeptIndices :
        /\ i < j
        /\ \/ QuestionKey(clean_record(batch[i])) = QuestionKey(clean_record(batch[j]))
           \/ TextKey(clean_record(batch[i])) = TextKey(clean_record(batch[j]))

\* C8: when clean_records has returned, its output is the cleaned records of
\* the kept indices in input order; with remove_duplicates a record is kept
\* exactly when neither of its keys equals the key of an earlier kept record,
\* without it every record is kept; and at every moment the two sets hold the
\* keys of the kept records and no other key.
C8_FirstOccurrenceWins ==
    /\ seen_questions = {QuestionKey(cleaned_records[k]) : k \in 1..Len(cleaned_records)}
    /\ seen_texts = {TextKey(cleaned_records[k]) : k \in 1..Len(cleaned_records)}
    /\ cpc = "done" =>
          /\ \A k \in 1..Len(kept_from) - 1 : kept_from[k] < kept_from[k + 1]
          /\ cleaned_records =
                [k \in 1..Len(kept_from) |-> clean_record(batch[kept_from[k]])]
          /\ \A j \in 1..Len(batch) :
                j \in KeptIndices <=> (~remove_duplicates \/ ~RepeatsKept(j))

\* C8 witness: a call has returned that kept the first record, dropped the
\* second for its text alone, and kept the third although its question is
\* the question of the dropped second record.
C8_Witness ==
    /\ cpc = "done" /\ remove_duplicates /\ Len(batch) = 3
    /\ kept_from = <<1, 3>>
    /\ QuestionKey(clean_record(batch[2])) # QuestionKey(clean_record(batch[1]))
    /\ QuestionKey(clean_record(batch[3])) = QuestionKey(clean_record(batch[2]))

\* lines 14-16 and 189-216: the list a DataCleaner whose two sets are sq and
\* st returns for the records b, out being the records kept so far.
RECURSIVE CleanFrom(_, _, _, _, _)
CleanFrom(b, rd, sq, st, out) ==
    IF b = <<>> THEN out
    ELSE IF rd /\ (\/ QuestionKey(clean_record(Head(b))) \in sq
                   \/ TextKey(clean_record(Head(b))) \in st)
         THEN CleanFrom(Tail(b), rd, sq, st, out)
         ELSE CleanFrom(Tail(b), rd,
                        sq \cup {QuestionKey(clean_record(Head(b)))},
                        st \cup {TextKey(clean_record(Head(b)))},
                        Append(out, clean_record(Head(b))))

\* C9: the list a call of clean_records returns is the list a DataCleaner
\* just constructed returns for the same batch, whatever calls came before.
C9_ResetPerBatch ==
    cpc = "done" => cleaned_records = CleanFrom(batch, remove_duplicates, {}, {}, <<>>)

\* C9 witness: a call has returned that kept its first record although the
\* call before on the same instance had kept that very record.
C9_Witness ==
    /\ cpc = "done" /\ remove_duplicates /\ stale
    /\ kept_from # <<>> /\ kept_from[1] = 1

\* The keys of the records of cleaned_records, by the field look_up reads.
KeptQuestionKeys == {QuestionKey(cleaned_records[k]) : k \in 1..Len(cleaned_records)}

KeptTextKeys == {TextKey(cleaned_records[k]) : k \in 1..Len(cleaned_records)}

\* An iteration of the loop of clean_records that appends nothing: the call
\* of is_duplicate at line 198 has returned True.
DuplicateFound == next_record' = next_record + 1 /\ cleaned_records' = cleaned_records

\* An iteration of the loop of clean_records that appends a record.
RecordAppended == next_record' = next_record + 1 /\ Len(cleaned_records') = Len(cleaned_records) + 1

\* The sets after an iteration are what C25 allows: unchanged when
\* is_duplicate has found a duplicate, grown by the two keys of the appended
\* record and by nothing else when a record was kept.
KeysFollowKept ==
    /\ DuplicateFound =>
           (seen_questions' = seen_questions /\ seen_texts' = seen_texts)
    /\ RecordAppended =>
           (/\ seen_questions' = seen_questions
                  \cup {QuestionKey(cleaned_records'[Len(cleaned_records')])}
            /\ seen_texts' = seen_texts
                  \cup {TextKey(cleaned_records'[Len(cleaned_records')])})

\* C25: an iteration in which is_duplicate has found a duplicate leaves
\* seen_questions and seen_texts as they were; an iteration that keeps a
\* record adds the two keys of that record and nothing else; and in every
\* state the two sets are the keys of the records kept so far by the current
\* call of clean_records.
C25_KeysOfKeptOnly ==
    /\ [](seen_questions = KeptQuestionKeys /\ seen_texts = KeptTextKeys)
    /\ [][KeysFollowKept]_vars

\* C25 witness: the loop has kept a record and has skipped a later one for
\* its text alone, so that the question key is_duplicate looked up for the
\* skipped record is in no set; the call before had left keys behind.
C25_Witness ==
    /\ cpc = "loop" /\ stale /\ cleaned_records # <<>>
    /\ \E j \in 1..(next_record - 1) :
           /\ j \notin KeptIndices
           /\ QuestionKey(clean_record(batch[j])) \notin seen_questions

\* The record at index j repeats a key of a record kept before it, and the
\* key is not the empty string.
RepeatsKeptNonEmpty(j) ==
    \E i \in KeptIndices :
        /\ i < j
        /\ \/ /\ QuestionKey(clean_record(batch[j])) # <<>>
              /\ QuestionKey(clean_record(batch[i])) = QuestionKey(clean_record(batch[j]))
           \/ /\ TextKey(clean_record(batch[j])) # <<>>
              /\ TextKey(clean_record(batch[i])) = TextKey(clean_record(batch[j]))

\* C30: when clean_records has returned, every record it dropped has the
\* non-empty question key or the non-empty text key of a record kept before
\* it; a key that is empty because the field is missing drops no record.
C30_MissingFieldsNoDuplicate ==
    cpc = "done" =>
        \A j \in 1..Len(batch) : j \notin KeptIndices => RepeatsKeptNonEmpty(j)

-----------------------------------------------------------------------------
(* SpecConc: two invocations of clean_records run concurrently, each on    *)
(* its own batch, interleaved between loop iterations.  Each invocation    *)
(* is a method call on a DataCleaner instance; cleaned_records and the     *)
(* loop position are locals of the call, seen_questions and seen_texts     *)
(* are attributes of the instance.  Both calls leave remove_duplicates at  *)
(* its default True.                                                       *)

Invocations == {1, 2}

\* The variant of InstanceOf in which every call is made on one instance.
InstanceOfShared(i) == 1

\* lines 14-16: the instance whose attributes invocation i reads and writes
InstanceOf(i) == IF shared THEN 1 ELSE i

\* The records of the concurrent batches: two records that are duplicates of
\* each other by their question, and one that is a duplicate of neither.
ConcRecords ==
    {[question |-> <<"a", "?">>, answer |-> <<"b">>],
     [question |-> <<"a", " ", "?">>, answer |-> <<"c">>],
     [question |-> <<"b", "?">>, answer |-> <<"c">>]}

MaxConcBatch == 2

ConcBatches == SeqsUpTo(ConcRecords, MaxConcBatch)

\* lines 14-16: the instances are constructed, no call has started
InitConc ==
    /\ shared \in BOOLEAN
    /\ inst_questions = [n \in Invocations |-> {}]
    /\ inst_texts = [n \in Invocations |-> {}]
    /\ conc_pc = [i \in Invocations |-> "idle"]
    /\ conc_batch = [i \in Invocations |-> <<>>]
    /\ conc_next = [i \in Invocations |-> 1]
    /\ conc_out = [i \in Invocations |-> <<>>]
    /\ inp = <<>> /\ hist = <<>>
    /\ ChunkerIdle
    /\ CleanerIdle
    /\ RecIdle
    /\ BatchIdle

\* lines 175-193: invocation i starts and clears the sets of its instance
ConcStart(i) ==
    /\ conc_pc[i] = "idle"
    /\ \E b \in ConcBatches : conc_batch' = [conc_batch EXCEPT ![i] = b]
    /\ inst_texts' = [inst_texts EXCEPT ![InstanceOf(i)] = ClearedKeys(@)]
    /\ inst_questions' = [inst_questions EXCEPT ![InstanceOf(i)] = ClearedKeys(@)]
    /\ conc_out' = [conc_out EXCEPT ![i] = <<>>]
    /\ conc_next' = [conc_next EXCEPT ![i] = 1]
    /\ conc_pc' = [conc_pc EXCEPT ![i] = "loop"]
    /\ UNCHANGED <<shared, normVars, cfgVars, chunkVars, cleanVars, recVars, batchVars>>

\* lines 107-133 on the sets of the instance of invocation i
ConcIsDuplicate(i, rec) ==
    IF QuestionKey(rec) \in inst_questions[InstanceOf(i)] THEN TRUE
    ELSE IF TextKey(rec) \in inst_texts[InstanceOf(i)] THEN TRUE
    ELSE FALSE

\* lines 195-202: one iteration of invocation i that skips a duplicate
ConcSkip(i) ==
    /\ conc_pc[i] = "loop"
    /\ conc_next[i] <= Len(conc_batch[i])
    /\ ConcIsDuplicate(i, clean_record(conc_batch[i][conc_next[i]]))
    /\ conc_next' = [conc_next EXCEPT ![i] = @ + 1]
    /\ UNCHANGED <<shared, inst_questions, inst_texts, conc_pc, conc_batch, conc_out>>
    /\ UNCHANGED <<normVars, cfgVars, chunkVars, cleanVars, recVars, batchVars>>

\* lines 195-211: one iteration of invocation i that keeps the record
ConcKeep(i) ==
    /\ conc_pc[i] = "loop"
    /\ conc_next[i] <= Len(conc_batch[i])
    /\ LET kept == clean_record(conc_batch[i][conc_next[i]])
       IN  /\ ~ConcIsDuplicate(i, kept)
           /\ inst_questions' =
                 [inst_questions EXCEPT ![InstanceOf(i)] = @ \cup {QuestionKey(kept)}]
           /\ inst_texts' =
                 [inst_texts EXCEPT ![InstanceOf(i)] = @ \cup {TextKey(kept)}]
           /\ conc_out' = [conc_out EXCEPT ![i] = Append(@, kept)]
    /\ conc_next' = [conc_next EXCEPT ![i] = @ + 1]
    /\ UNCHANGED <<shared, conc_pc, conc_batch>>
    /\ UNCHANGED <<normVars, cfgVars, chunkVars, cleanVars, recVars, batchVars>>

\* lines 213-216: invocation i returns its cleaned_records
ConcReturn(i) ==
    /\ conc_pc[i] = "loop"
    /\ conc_next[i] > Len(conc_batch[i])
    /\ conc_pc' = [conc_pc EXCEPT ![i] = "done"]
    /\ UNCHANGED <<shared, inst_questions, inst_texts, conc_batch, conc_next, conc_out>>
    /\ UNCHANGED <<normVars, cfgVars, chunkVars, cleanVars, recVars, batchVars>>

ConcStartAny == \E i \in Invocations : ConcStart(i)

ConcSkipAny == \E i \in Invocations : ConcSkip(i)

ConcKeepAny == \E i \in Invocations : ConcKeep(i)

ConcReturnAny == \E i \in Invocations : ConcReturn(i)

NextConc == ConcStartAny \/ ConcSkipAny \/ ConcKeepAny \/ ConcReturnAny

SpecConc == InitConc /\ [][NextConc]_vars

\* lines 189-216: what invocation i returns when it runs alone
StandAlone(i) == CleanFrom(conc_batch[i], TRUE, {}, {}, <<>>)

\* C21: when the two invocations use an instance each, an invocation that
\* has returned has returned what it returns when it runs alone, whatever
\* the interleaving with the other invocation was.
C21_OwnInstanceIsolated ==
    ~shared =>
        \A i \in Invocations : conc_pc[i] = "done" => conc_out[i] = StandAlone(i)

\* C21 witness: the two invocations used one instance and both have
\* returned; the first kept a duplicate of its own batch, since the second
\* had cleared the sets, and the second dropped a record that is no
\* duplicate in its batch, since the sets held a key of the first.
C21_Witness ==
    /\ shared
    /\ \A i \in Invocations : conc_pc[i] = "done"
    /\ Len(conc_out[1]) > Len(StandAlone(1))
    /\ Len(conc_out[2]) < Len(StandAlone(2))

-----------------------------------------------------------------------------
(* SpecRec: DataCleaner.clean_record step by step on dict objects.  The    *)
(* objects live in heap, a reference is an index of heap, and the value of *)
(* the key 'metadata' is a reference.                                      *)

\* line 145: record.copy() allocates a dict with the keys and values of the
\* record; a value that is a reference is shared with the record.
RecordCopied(h, r) == Append(h, h[r])

\* The variant of MetadataCopied without the copy: cleaned['metadata'] stays
\* the metadata object of the record.
MetadataAliased(h, c) == h

\* line 167: cleaned['metadata'] = cleaned['metadata'].copy()
MetadataCopied(h, c) ==
    [Append(h, h[h[c]["metadata"]]) EXCEPT ![c] = Put(h[c], "metadata", Len(h) + 1)]

\* The dicts d and, for every value v of vs, d with d[k] = v.
OptPut(d, k, vs) == {d} \cup {Put(d, k, v) : v \in vs}

\* Values of category and section: one that normalize_text changes and one
\* that it leaves alone.
FieldValues == {<<" ", "x", " ", ".">>, <<"x">>}

\* The records handed to clean_record, without the key 'metadata'.
RecBases ==
    {[id |-> <<"r">>], [id |-> <<"r">>, question |-> <<"a">>, answer |-> <<"b">>],
     [id |-> <<"r">>, question |-> <<"a">>, answer |-> <<"b">>, text |-> <<" ", "t">>],
     [id |-> <<"r">>, question |-> <<"a">>, text |-> <<" ", "t">>]}
RecTops ==
    UNION {OptPut(d, "section", FieldValues) :
              d \in UNION {OptPut(b, "category", FieldValues) : b \in RecBases}}

\* The metadata dicts.
RecMetadata ==
    UNION {OptPut(d, "section", FieldValues) :
              d \in OptPut([source |-> <<"s">>], "category", FieldValues)}

\* The heaps at the call: the record alone, or the record at 1 whose
\* 'metadata' refers to the dict at 2.
RecHeaps ==
    {<<r>> : r \in RecTops}
      \cup {<<Put(r, "metadata", 2), m>> : r \in RecTops, m \in RecMetadata}

\* clean_record(record) is called with the reference 1.
InitRec ==
    /\ heap \in RecHeaps
    /\ heap_before = heap
    /\ arg = 1 /\ cleaned_at = 0 /\ rpc = "call"
    /\ inp = <<>> /\ hist = <<>>
    /\ ChunkerIdle
    /\ CleanerIdle
    /\ BatchIdle
    /\ ConcIdle

\* line 145
CopyRecord ==
    /\ rpc = "call"
    /\ heap' = RecordCopied(heap, arg)
    /\ cleaned_at' = Len(heap) + 1
    /\ rpc' = "fields"
    /\ UNCHANGED <<heap_before, arg, normVars, cfgVars, concVars, chunkVars, cleanVars, batchVars>>

\* lines 147-163
NormalizeRecordFields ==
    /\ rpc = "fields"
    /\ heap' = [heap EXCEPT ![cleaned_at] = NormalizeFields(@)]
    /\ rpc' = "metadata"
    /\ UNCHANGED <<heap_before, arg, cleaned_at, normVars, cfgVars, concVars, chunkVars, cleanVars, batchVars>>

\* lines 166-167: the key 'metadata' is present
CopyMetadata ==
    /\ rpc = "metadata"
    /\ "metadata" \in DOMAIN heap[cleaned_at]
    /\ heap' = MetadataCopied(heap, cleaned_at)
    /\ rpc' = "rewrite"
    /\ UNCHANGED <<heap_before, arg, cleaned_at, normVars, cfgVars, concVars, chunkVars, cleanVars, batchVars>>

\* line 166: the key 'metadata' is absent
NoMetadata ==
    /\ rpc = "metadata"
    /\ "metadata" \notin DOMAIN heap[cleaned_at]
    /\ rpc' = "return"
    /\ UNCHANGED <<heap, heap_before, arg, cleaned_at, normVars, cfgVars, concVars, chunkVars, cleanVars, batchVars>>

\* lines 168-171: the writes go to the dict cleaned['metadata'] refers to
RewriteMetadataFields ==
    /\ rpc = "rewrite"
    /\ heap' = [heap EXCEPT ![heap[cleaned_at]["metadata"]] =
                                RewriteMetadata(@, heap[cleaned_at])]
    /\ rpc' = "return"
    /\ UNCHANGED <<heap_before, arg, cleaned_at, normVars, cfgVars, concVars, chunkVars, cleanVars, batchVars>>

\* line 173
ReturnCleanedRecord ==
    /\ rpc = "return"
    /\ rpc' = "done"
    /\ UNCHANGED <<heap, heap_before, arg, cleaned_at, normVars, cfgVars, concVars, chunkVars, cleanVars, batchVars>>

NextRec ==
    \/ CopyRecord \/ NormalizeRecordFields \/ CopyMetadata \/ NoMetadata
    \/ RewriteMetadataFields \/ ReturnCleanedRecord

SpecRec == InitRec /\ [][NextRec]_vars

\* The dict a reference of heap h denotes, a 'metadata' reference followed.
Deref(h, r) ==
    IF "metadata" \in DOMAIN h[r] THEN Put(h[r], "metadata", h[h[r]["metadata"]])
    ELSE h[r]

\* C10: when clean_record has returned, every dict that existed at the call,
\* the record and its metadata dict, has the keys and values it had at the
\* call, and the record still refers to the same metadata dict.
C10_InputNotMutated ==
    rpc = "done" =>
        /\ \A a \in 1..Len(heap_before) : heap[a] = heap_before[a]
        /\ Deref(heap, arg) = Deref(heap_before, arg)

\* C10 witness: clean_record has returned a dict whose metadata category
\* differs from the metadata category of the record it was given.
C10_Witness ==
    /\ rpc = "done"
    /\ "metadata" \in DOMAIN heap[arg]
    /\ "category" \in DOMAIN heap[heap[arg]["metadata"]]
    /\ heap[heap[cleaned_at]["metadata"]]["category"]
          # heap_before[heap_before[arg]["metadata"]]["category"]

\* The text of the dict out is in sync with its question and answer, or is
\* the text of the dict before when one of the two is absent.
TextInSync(before, out) ==
    IF "question" \in DOMAIN out /\ "answer" \in DOMAIN out
    THEN /\ "text" \in DOMAIN out
         /\ out["text"] = <<"V", "o", "p", "r", "o", "s", ":", " ">> \o out["question"]
                            \o <<"\n", "O", "t", "v", "e", "t", ":", " ">> \o out["answer"]
    ELSE /\ ("text" \in DOMAIN out) = ("text" \in DOMAIN before)
         /\ "text" \in DOMAIN before => out["text"] = before["text"]

\* C11: when clean_record has returned, the text of the returned dict is the
\* question label, the returned question, a newline, the answer label and the
\* returned answer when both fields are present; otherwise its text is the
\* text of the record it was given, and is absent when that one is absent.
C11_TextInSync ==
    rpc = "done" => TextInSync(heap_before[arg], heap[cleaned_at])

\* C11 witness: clean_record has returned for a record that had a question,
\* an answer and a text that was not their canonical text.
C11_Witness ==
    /\ rpc = "done"
    /\ {"question", "answer", "text"} \subseteq DOMAIN heap_before[arg]
    /\ heap[cleaned_at]["text"] # heap_before[arg]["text"]
    /\ heap[cleaned_at]["question"] # heap_before[arg]["question"]

-----------------------------------------------------------------------------
(* SpecRecords: TextChunker.chunk_records, which calls chunk_record, which *)
(* calls create_chunks_from_text.  The records are dict values; a write to *)
(* a record of the list is a write to the element of records.              *)

\* lines 274-277: the record is stamped in place
StampNotChunk(rec) ==
    Put(Put(rec, "is_chunk", FALSE), "metadata",
        Put(Get(rec, "metadata", <<>>), "is_chunk", FALSE))

\* line 264 (and 201): record.get('text', '')
TextOf(rec) == Get(rec, "text", <<>>)

\* line 267: the record is handed to chunk_record
IsLongRecord(rec) == enable_chunking /\ Len(TextOf(rec)) > min_text_length

\* The variant of Extended that puts the new records in front.
ExtendedInFront(lst, more) == more \o lst

\* line 271: chunked_records.extend(chunks)
Extended(lst, more) == lst \o more

MaxRecords == 2
MinTextLengths == {0, 3}

\* A batch of one record, for every text.
SingleBatches ==
    {<<[id |-> <<"r">>, text |-> t]>> : t \in SeqsUpTo(TextAlphabet, MaxRecordTextLen)}

\* Records of different shapes for the batches of several records.
MixRecords ==
    {[id |-> <<"r">>],
     [text |-> <<"a", "a">>],
     [id |-> <<"s">>, text |-> <<"a", "a", "a", "a", "a">>],
     [id |-> <<"r">>, text |-> <<"a", ".", " ", "a", ".">>, question |-> <<"q", "?">>,
      metadata |-> [source |-> <<"f">>]],
     [id |-> <<"t">>, text |-> <<"a", "a", " ", "a", " ", "a">>, metadata |-> <<>>],
     [id |-> <<"r", "_", "0">>, text |-> <<"a", "a">>]}

RecordBatches == SingleBatches \cup SeqsUpTo(MixRecords, MaxRecords)

\* TextChunker.__init__ (lines 35-37); no call is in progress.
InitRecords ==
    /\ chunk_size \in ChunkSizes
    /\ chunk_overlap \in ChunkOverlaps
    /\ min_chunk_size \in MinChunkSizes
    /\ inp = <<>> /\ hist = <<>>
    /\ enable_chunking = TRUE /\ record = <<>> /\ result = <<>> /\ caller = "none"
    /\ text = <<>> /\ prefix = <<>> /\ parent_metadata = None /\ pc = "idle"
    /\ sentences = <<>> /\ current_chunk = <<>> /\ current_length = 0
    /\ chunk_index = 0 /\ chunks = <<>>
    /\ words = <<>> /\ temp_chunk = <<>> /\ temp_length = 0
    /\ flushed = <<>>
    /\ CleanerIdle
    /\ RecIdle
    /\ BatchIdle
    /\ ConcIdle

\* lines 247-262: chunk_records(records, enable_chunking, min_text_length)
CallChunkRecords ==
    /\ kpc = "idle"
    /\ \E b \in RecordBatches, en \in BOOLEAN, m \in MinTextLengths :
          /\ records' = b
          /\ records_before' = b
          /\ enable_chunking' = en
          /\ min_text_length' = m
    /\ chunked_records' = <<>>
    /\ blocks' = <<>>
    /\ visit' = 1
    /\ kpc' = "loop"
    /\ UNCHANGED <<normVars, cfgVars, concVars, cleanVars, recVars, record, result, caller, text,
                   prefix, parent_metadata, pc, sentences, current_chunk, current_length,
                   chunk_index, chunks, words, temp_chunk, temp_length, flushed>>

\* lines 272-278: the record is not handed to chunk_record
KeepShortRecord ==
    /\ kpc = "loop"
    /\ visit <= Len(records)
    /\ ~IsLongRecord(records[visit])
    /\ records' = [records EXCEPT ![visit] = StampNotChunk(@)]
    /\ chunked_records' = Append(chunked_records, StampNotChunk(records[visit]))
    /\ blocks' = Append(blocks, <<StampNotChunk(records[visit])>>)
    /\ visit' = visit + 1
    /\ UNCHANGED <<normVars, cfgVars, concVars, cleanVars, recVars, chunkVars,
                   records_before, min_text_length, kpc>>

\* lines 267-271 with 201-206: chunk_record returns the record itself
ChunkWholeRecord ==
    /\ kpc = "loop"
    /\ visit <= Len(records)
    /\ IsLongRecord(records[visit])
    /\ Len(TextOf(records[visit])) <= chunk_size
    /\ chunked_records' = Append(chunked_records, records[visit])
    /\ blocks' = Append(blocks, <<records[visit]>>)
    /\ visit' = visit + 1
    /\ UNCHANGED <<normVars, cfgVars, concVars, cleanVars, recVars, chunkVars,
                   records, records_before, min_text_length, kpc>>

\* lines 267-270 with 201-222: chunk_record calls create_chunks_from_text
ChunkLongRecord ==
    /\ kpc = "loop"
    /\ visit <= Len(records)
    /\ IsLongRecord(records[visit])
    /\ ~(Len(TextOf(records[visit])) <= chunk_size)
    /\ record' = records[visit]
    /\ text' = TextOf(records[visit])
    /\ prefix' = Get(records[visit], "id", unknown)
    /\ parent_metadata' = ParentMetadata(records[visit])
    /\ caller' = "chunk_records"
    /\ flushed' = <<>>
    /\ pc' = "call"
    /\ kpc' = "chunking"
    /\ UNCHANGED <<normVars, cfgVars, concVars, cleanVars, recVars, enable_chunking, result, sentences,
                   current_chunk, current_length, chunk_index, chunks, words, temp_chunk,
                   temp_length, records, records_before, min_text_length,
                   chunked_records, visit, blocks>>

\* lines 224-245 and 270-271: the records made from the chunks are appended
ExtendWithChunks ==
    /\ kpc = "chunking"
    /\ pc = "return"
    /\ result' = [i \in 1..Len(chunks) |-> ChunkToRecord(record, chunks[i])]
    /\ chunked_records' =
          Extended(chunked_records, [i \in 1..Len(chunks) |-> ChunkToRecord(record, chunks[i])])
    /\ blocks' = Append(blocks, [i \in 1..Len(chunks) |-> ChunkToRecord(record, chunks[i])])
    /\ visit' = visit + 1
    /\ pc' = "idle"
    /\ kpc' = "loop"
    /\ UNCHANGED <<normVars, cfgVars, concVars, cleanVars, recVars, enable_chunking, record, caller,
                   text, prefix, parent_metadata, sentences, current_chunk, current_length,
                   chunk_index, chunks, words, temp_chunk, temp_length, flushed,
                   records, records_before, min_text_length>>

\* lines 280-284
ReturnChunked ==
    /\ kpc = "loop"
    /\ visit > Len(records)
    /\ kpc' = "done"
    /\ UNCHANGED <<normVars, cfgVars, concVars, cleanVars, recVars, chunkVars,
                   records, records_before, min_text_length, chunked_records, visit, blocks>>

NextRecords ==
    \/ CallChunkRecords
    \/ KeepShortRecord
    \/ ChunkWholeRecord
    \/ ChunkLongRecord
    \/ ExtendWithChunks
    \/ ReturnChunked
    \/ SplitText
    \/ OversizedSentence
    \/ WordFlush
    \/ WordAppend
    \/ WordsDone
    \/ AddSentence
    \/ OverflowSentence
    \/ FinalFlush

SpecRecords == InitRecords /\ [][NextRecords]_vars

\* C13: when chunk_records has returned with chunking enabled, every record
\* whose text is longer than chunk_size and longer than min_text_length has
\* put more than one record into the output.
C13_LongRecordSplit ==
    (kpc = "done" /\ enable_chunking) =>
        \A i \in 1..Len(records_before) :
            (/\ Len(TextOf(records_before[i])) > chunk_size
             /\ Len(TextOf(records_before[i])) > min_text_length)
                => Len(blocks[i]) > 1

\* The concatenation of the lists of a list.
RECURSIVE Flatten(_)
Flatten(lists) == IF lists = <<>> THEN <<>> ELSE Head(lists) \o Flatten(Tail(lists))

\* The dict rec differs from the dict before only in is_chunk = false, at
\* the top and in its metadata.
IsStamped(rec, before) ==
    /\ DOMAIN rec = DOMAIN before \cup {"is_chunk", "metadata"}
    /\ rec["is_chunk"] = FALSE
    /\ \A f \in DOMAIN before \ {"is_chunk", "metadata"} : rec[f] = before[f]
    /\ DOMAIN rec["metadata"] = DOMAIN Get(before, "metadata", <<>>) \cup {"is_chunk"}
    /\ rec["metadata"]["is_chunk"] = FALSE
    /\ \A f \in DOMAIN Get(before, "metadata", <<>>) \ {"is_chunk"} :
          rec["metadata"][f] = before["metadata"][f]

\* C17: during and after a call of chunk_records, chunked_records is the
\* concatenation, in input order, of one block per visited record; the block
\* of a record that is not handed to chunk_record (with chunking enabled: a
\* text of at most min_text_length characters) is that record with is_chunk
\* = false, the block of any other record is the list chunk_record returns:
\* the record itself when its text fits into chunk_size, and else one record
\* per chunk of create_chunks_from_text.
C17_BlocksInOrder ==
    kpc # "idle" =>
        /\ chunked_records = Flatten(blocks)
        /\ Len(blocks) = visit - 1
        /\ \A i \in 1..Len(blocks) :
              IF ~(enable_chunking /\ Len(TextOf(records_before[i])) > min_text_length)
              THEN Len(blocks[i]) = 1 /\ IsStamped(blocks[i][1], records_before[i])
              ELSE IF Len(TextOf(records_before[i])) <= chunk_size
              THEN blocks[i] = <<records_before[i]>>
              ELSE (i = visit - 1 /\ kpc = "loop") =>
                      /\ blocks[i] = result
                      /\ blocks[i] = [k \in 1..Len(chunks) |->
                                         ChunkToRecord(records_before[i], chunks[k])]

\* C17 witness: chunk_records has returned for two records; the first was
\* split into two or more chunk records and the second was passed through
\* with is_chunk = false.
C17_Witness ==
    /\ kpc = "done" /\ enable_chunking
    /\ Len(records_before) = 2
    /\ Len(blocks[1]) >= 2
    /\ Len(TextOf(records_before[2])) <= min_text_length
    /\ Len(chunked_records) = Len(blocks[1]) + 1

\* C18: a call of chunk_records leaves every record of the list it was
\* given with the fields and values the record had at the call.
C18_RecordsUnchanged ==
    kpc # "idle" => records = records_before

\* C28: when chunk_records has returned for records that all have an id,
\* no two of them the same, no two records of the list it returns have the
\* same id.
C28_IdsStayDistinct ==
    (/\ kpc = "done"
     /\ \A i \in 1..Len(records_before) : "id" \in DOMAIN records_before[i]
     /\ \A i, j \in 1..Len(records_before) :
            i # j => records_before[i]["id"] # records_before[j]["id"])
        => \A i, j \in 1..Len(chunked_records) :
               i # j => Get(chunked_records[i], "id", None)
                           # Get(chunked_records[j], "id", None)

\* C29: when chunk_records has returned with chunking enabled, every record
\* of the list it returns has the key is_chunk.
C29_EveryRecordFlagged ==
    (kpc = "done" /\ enable_chunking) =>
        \A i \in 1..Len(chunked_records) : "is_chunk" \in DOMAIN chunked_records[i]

-----------------------------------------------------------------------------
(* SpecConfig: TextChunker.__init__ with any integers as configuration,    *)
(* and create_chunks_from_text on the instance it leaves.                  *)

\* The arguments handed to TextChunker.__init__.
ConfigSizes == {-1, 0, 3}
ConfigOverlaps == {-1, 0, 1, 3}
ConfigMinSizes == {-1, 0, 2}

MaxConfigTextLen == 4

\* The configurations that C16 calls valid.
ValidConfig ==
    /\ chunk_size > 0
    /\ min_chunk_size >= 0
    /\ chunk_overlap >= 0 /\ chunk_overlap < chunk_size

\* No TextChunker is constructed yet.
InitConfig ==
    /\ chunk_size = 0 /\ chunk_overlap = 0 /\ min_chunk_size = 0
    /\ inp = <<>> /\ hist = <<>>
    /\ enable_chunking = TRUE /\ record = <<>> /\ result = <<>> /\ caller = "none"
    /\ text = <<>> /\ prefix = <<>> /\ parent_metadata = None /\ pc = "new"
    /\ sentences = <<>> /\ current_chunk = <<>> /\ current_length = 0
    /\ chunk_index = 0 /\ chunks = <<>>
    /\ words = <<>> /\ temp_chunk = <<>> /\ temp_length = 0
    /\ flushed = <<>>
    /\ CleanerIdle
    /\ RecIdle
    /\ BatchIdle
    /\ ConcIdle

\* lines 23-37: __init__ stores its three arguments and returns; no
\* statement of it tests them or raises
Construct ==
    /\ pc = "new"
    /\ chunk_size' \in ConfigSizes
    /\ chunk_overlap' \in ConfigOverlaps
    /\ min_chunk_size' \in ConfigMinSizes
    /\ pc' = "idle"
    /\ UNCHANGED <<normVars, cleanVars, recVars, batchVars, concVars, enable_chunking, record,
                   result, caller, text, prefix, parent_metadata, sentences, current_chunk,
                   current_length, chunk_index, chunks, words, temp_chunk, temp_length,
                   flushed>>

\* A call create_chunks_from_text(t) on the constructed instance
CallCreateChunks ==
    /\ pc = "idle"
    /\ text' \in SeqsUpTo(TextAlphabet, MaxConfigTextLen)
    /\ parent_metadata' = None
    /\ prefix' = DefaultPrefix
    /\ caller' = "direct"
    /\ pc' = "call"
    /\ UNCHANGED <<normVars, cleanVars, recVars, batchVars, cfgVars, concVars, enable_chunking, record,
                   result, sentences, current_chunk, current_length, chunk_index, chunks,
                   words, temp_chunk, temp_length, flushed>>

NextConfig == Construct \/ CallCreateChunks \/ CreateChunksBody \/ DirectReturn

SpecConfig == InitConfig /\ [][NextConfig]_vars

\* C16: a TextChunker that was constructed has a valid configuration, so
\* that create_chunks_from_text never runs with chunk_size <= 0,
\* min_chunk_size < 0, chunk_overlap < 0 or chunk_overlap >= chunk_size.
C16_ConfigValidated ==
    pc # "new" => ValidConfig

\* create_chunks_from_text runs in one thread: a call that has started takes
\* its next step until it has returned.
SpecConfigFair == SpecConfig /\ WF_vars(CreateChunksBody \/ DirectReturn)

\* lines 117-119: the number of words of the sentences longer than chunk_size
RECURSIVE WordsOfOversized(_)
WordsOfOversized(ss) ==
    IF ss = <<>> THEN 0
    ELSE (IF Len(Head(ss)) > chunk_size THEN Len(SplitWords(Head(ss), <<>>)) ELSE 0)
             + WordsOfOversized(Tail(ss))

\* The most chunks C27 allows for the text of the call.
MaxChunks ==
    Len(split_by_sentences(text)) + WordsOfOversized(split_by_sentences(text)) + 1

\* A call of create_chunks_from_text is running.
Running == pc \in {"call", "for", "words", "return"}

\* C27: whatever three integers the TextChunker was constructed with, a call
\* of create_chunks_from_text that has started returns; until then it always
\* has a next step, so that no statement of it fails; and at no moment does
\* the list of chunks hold more than the number of sentences of the text
\* plus the number of words of its sentences longer than chunk_size plus one.
C27_TerminatesBounded ==
    /\ [](Running => Len(chunks) <= MaxChunks)
    /\ [](pc = "done" => Len(result) <= MaxChunks)
    /\ [](Running => ENABLED (CreateChunksBody \/ DirectReturn))
    /\ (pc = "call") ~> (pc = "done")

\* C27 witness: a call has returned two chunks or more from a TextChunker
\* whose chunk_size is not positive, whose chunk_overlap is not below
\* chunk_size and whose min_chunk_size is negative.
C27_Witness ==
    /\ pc = "done" /\ Len(result) >= 2
    /\ chunk_size <= 0 /\ chunk_overlap >= chunk_size /\ min_chunk_size < 0

=============================================================================
